---- MODULE Spec2Model ----
(***************************************************************************)
(* Model of the agent orchestration core of yusufs-personal-ai:            *)
(*   agent/agent.py            Agent._call_llm, _extract_focus,            *)
(*                             _parse_response, _get_memory_context, run,  *)
(*                             handle_feedback                             *)
(*   agent/tools.py            ToolRegistry                                *)
(*   storage/*.py              InteractionsStore, LLMLogStore, FocusStore  *)
(*   integrations/discord_bot.py  ConversationManager.handle_message       *)
(*                                                                         *)
(* Texts are finite sequences of lexemes (tokens): the six markers of the  *)
(* response grammar, whitespace, a period, words and JSON bodies.  Word    *)
(* lexemes are maximal runs of word characters.                            *)
(***************************************************************************)
EXTENDS Naturals, Integers, Sequences, FiniteSets, TLC

(***************************************************************************)
(* Bounds of the model.                                                    *)
(***************************************************************************)
MaxIterations == 2    \* max_iterations of Agent.run (agent.py:355 defaults to 10)
MaxTurns == 2         \* top-level calls in a behaviour
MaxCalls == MaxIterations   \* model calls in a behaviour: enough for one exhausted turn
MaxFaults == 1        \* injected failures of collaborators in a behaviour
MaxFocusCalls == 4    \* set_focus calls in a behaviour of the focus store on its own
MaxRows == 22         \* rows that earlier turns left in the interactions table
MaxLen == 4           \* lexemes in a text given to _parse_response on its own
MaxLines == 3         \* lines of a response given to _send_response on its own

(***************************************************************************)
(* Lexemes.                                                                *)
(***************************************************************************)
\* Python's None for an optional text, and a failed re.search.
None == <<"None">>
NoMatch == <<"NoMatch">>
NoName == "None"

Markers == {"THOUGHT:", "FOCUS:", "ACTION:", "ACTION_INPUT:", "FINAL_ANSWER:", "DRAFT_FOR_APPROVAL:"}
WS == {" ", "NL"}
Words == {"hi", "t", "f1", "f2", "done", "dear", "search_emails", "nosuch",
          "send", "it", "ok", "reset", "Send", "OK"}

\* The word characters at the start of a lexeme (what \w+ matches there).
WordOf(tok) ==
    IF tok \in Words THEN tok
    ELSE IF tok = "THOUGHT:" THEN "THOUGHT"
    ELSE IF tok = "FOCUS:" THEN "FOCUS"
    ELSE IF tok = "ACTION:" THEN "ACTION"
    ELSE IF tok = "ACTION_INPUT:" THEN "ACTION_INPUT"
    ELSE IF tok = "FINAL_ANSWER:" THEN "FINAL_ANSWER"
    ELSE IF tok = "DRAFT_FOR_APPROVAL:" THEN "DRAFT_FOR_APPROVAL"
    ELSE IF tok = "7" THEN "7"
    ELSE ""

\* str.lower() on a lexeme.
LowerTok(tok) ==
    IF tok = "Send" THEN "send"
    ELSE IF tok = "OK" THEN "ok"
    ELSE tok

Lower(s) == [k \in 1..Len(s) |-> LowerTok(s[k])]

RECURSIVE LStrip(_)
LStrip(s) == IF s # <<>> /\ Head(s) \in WS THEN LStrip(Tail(s)) ELSE s

RECURSIVE RStrip(_)
RStrip(s) == IF s # <<>> /\ s[Len(s)] \in WS THEN RStrip(SubSeq(s, 1, Len(s) - 1)) ELSE s

\* str.strip()
Strip(s) == RStrip(LStrip(s))

\* str.rstrip(".")
RECURSIVE RStripDots(_)
RStripDots(s) == IF s # <<>> /\ s[Len(s)] = "." THEN RStripDots(SubSeq(s, 1, Len(s) - 1)) ELSE s

\* "marker in text"
Contains(s, tok) == \E k \in 1..Len(s) : s[k] = tok

\* index of the first occurrence of tok, 0 when absent
IndexOf(s, tok) ==
    IF Contains(s, tok)
    THEN CHOOSE k \in 1..Len(s) : s[k] = tok /\ \A j \in 1..(k - 1) : s[j] # tok
    ELSE 0

\* The text after the last occurrence of the marker.
AfterLast(s, tok) ==
    SubSeq(s, (CHOOSE k \in 0..Len(s) : /\ k > 0 => s[k] = tok
                                        /\ \A j \in (k + 1)..Len(s) : s[j] # tok) + 1, Len(s))

\* text.split(marker, 1)[1]
AfterFirst(s, tok) == SubSeq(s, IndexOf(s, tok) + 1, Len(s))

RECURSIVE TakeUntil(_, _)
TakeUntil(s, stops) ==
    IF s = <<>> \/ Head(s) \in stops THEN <<>>
    ELSE <<Head(s)>> \o TakeUntil(Tail(s), stops)

\* The group of   marker\s*(.+?)(?=stop|...|$)   matched right after a
\* marker: whitespace is skipped, at least one character is taken (so the
\* first lexeme is taken whatever it is), then the group extends lazily to
\* the first stop lexeme or the end.  The text searched is stripped, so a
\* marker with nothing but whitespace after it is the last lexeme: no match.
LazyGroup(rest, stops) ==
    LET r == LStrip(rest) IN
    IF r = <<>> THEN NoMatch
    ELSE <<Head(r)>> \o TakeUntil(Tail(r), stops)

\* re.search(marker\s*(.+?)(?=...)): leftmost occurrence that matches.  Only
\* a marker that ends the text fails to match, so the first occurrence decides.
SearchGroup(s, marker, stops) ==
    IF ~Contains(s, marker) THEN NoMatch
    ELSE LazyGroup(AfterFirst(s, marker), stops)

\* re.search(r"ACTION:\s*(\w+)"): the leftmost ACTION: followed, after
\* optional whitespace, by a word character.
RECURSIVE ActionNameMatch(_)
ActionNameMatch(s) ==
    IF ~Contains(s, "ACTION:") THEN NoName
    ELSE LET rest == AfterFirst(s, "ACTION:")
             r == LStrip(rest)
         IN IF r # <<>> /\ WordOf(Head(r)) # "" THEN WordOf(Head(r))
            ELSE ActionNameMatch(rest)

(***************************************************************************)
(* json.loads on an ACTION_INPUT body.  "{}" and "{q}" are JSON objects    *)
(* (the latter stands for {"query": "hi"}), "[]" is a JSON array, "7" a    *)
(* JSON number; every other body raises JSONDecodeError.                   *)
(***************************************************************************)
JsonLexemes == {"{}", "{q}", "[]", "7", "{bad"}

JsonValid(body) == body \in {<<"{}">>, <<"{q}">>, <<"[]">>, <<"7">>}

\* action_input is [kind, dict]: kind is the Python type of the value
\* ("None" when the response is not an action), dict its set of
\* <<key, value>> items when it is a dict.
JsonLoads(body) ==
    IF body = <<"{}">> THEN [kind |-> "dict", dict |-> {}]
    ELSE IF body = <<"{q}">> THEN [kind |-> "dict", dict |-> {<<"query", <<"hi">>>>}]
    ELSE IF body = <<"[]">> THEN [kind |-> "list", dict |-> {}]
    ELSE [kind |-> "int", dict |-> {}]

(***************************************************************************)
(* Agent._extract_focus                                                    *)
(***************************************************************************)
FocusStops == {"NL", "ACTION:", "FINAL_ANSWER:", "DRAFT_FOR_APPROVAL:"}

ExtractFocus(response_text) ==
    LET g == SearchGroup(response_text, "FOCUS:", FocusStops) IN
    IF g = NoMatch THEN None
    ELSE LET focus == RStripDots(Strip(g)) IN
         IF focus # <<>> THEN focus ELSE None

(***************************************************************************)
(* Agent._parse_response                                                   *)
(***************************************************************************)
EmptyInput == [kind |-> "dict", dict |-> {}]
NoInput == [kind |-> "None", dict |-> {}]

AgentResponse(type, content, action_name, action_input, focus) ==
    [type |-> type, content |-> content, action_name |-> action_name,
     action_input |-> action_input, focus |-> focus]

ParseThought(response) ==
    LET g == SearchGroup(response, "THOUGHT:", {"FOCUS:", "ACTION:"}) IN
    IF g = NoMatch THEN <<>> ELSE Strip(g)

\* An alternative without the fallback: a body that does not decode leaves
\* the default empty input.
ParseActionInputNoFallback(response) ==
    LET g == SearchGroup(response, "ACTION_INPUT:", {"THOUGHT:", "ACTION:", "FOCUS:"}) IN
    IF g = NoMatch THEN EmptyInput
    ELSE LET input_str == Strip(g) IN
         IF JsonValid(input_str) THEN JsonLoads(input_str)
         ELSE EmptyInput

ParseActionInput(response) ==
    LET g == SearchGroup(response, "ACTION_INPUT:", {"THOUGHT:", "ACTION:", "FOCUS:"}) IN
    IF g = NoMatch THEN EmptyInput
    ELSE LET input_str == Strip(g) IN
         IF JsonValid(input_str) THEN JsonLoads(input_str)
         ELSE [kind |-> "dict", dict |-> {<<"raw_input", input_str>>}]

\* An alternative order of the marker tests: ACTION: is tested first.
ParseResponseActionFirst(raw) ==
    LET response == Strip(raw)
        focus == ExtractFocus(response)
    IN
    IF Contains(response, "ACTION:") /\ ActionNameMatch(response) # NoName
    THEN AgentResponse("action", ParseThought(response), ActionNameMatch(response),
                       ParseActionInput(response), focus)
    ELSE IF Contains(response, "FINAL_ANSWER:")
    THEN AgentResponse("final_answer", Strip(AfterFirst(response, "FINAL_ANSWER:")), NoName, NoInput, focus)
    ELSE IF Contains(response, "DRAFT_FOR_APPROVAL:")
    THEN AgentResponse("draft_for_approval", Strip(AfterFirst(response, "DRAFT_FOR_APPROVAL:")), NoName, NoInput, focus)
    ELSE IF Contains(response, "THOUGHT:")
    THEN AgentResponse("thought", Strip(AfterFirst(response, "THOUGHT:")), NoName, NoInput, focus)
    ELSE AgentResponse("thought", response, NoName, NoInput, focus)

ParseResponse(raw) ==
    LET response == Strip(raw)
        focus == ExtractFocus(response)
    IN
    IF Contains(response, "FINAL_ANSWER:")
    THEN AgentResponse("final_answer", Strip(AfterFirst(response, "FINAL_ANSWER:")), NoName, NoInput, focus)
    ELSE IF Contains(response, "DRAFT_FOR_APPROVAL:")
    THEN AgentResponse("draft_for_approval", Strip(AfterFirst(response, "DRAFT_FOR_APPROVAL:")), NoName, NoInput, focus)
    ELSE IF Contains(response, "ACTION:")
    THEN IF ActionNameMatch(response) = NoName
         THEN AgentResponse("thought", response, NoName, NoInput, focus)
         ELSE AgentResponse("action", ParseThought(response), ActionNameMatch(response),
                            ParseActionInput(response), focus)
    ELSE IF Contains(response, "THOUGHT:")
    THEN AgentResponse("thought", Strip(AfterFirst(response, "THOUGHT:")), NoName, NoInput, focus)
    ELSE AgentResponse("thought", response, NoName, NoInput, focus)

(***************************************************************************)
(* Fixed texts of the program.                                             *)
(***************************************************************************)
\* agent.py:521
ApologyFallback == <<"APOLOGY">>
\* agent.py:510 and agent.py:517
ContinuationPrompt == <<"CONTINUE_PROMPT">>
CorrectivePrompt == <<"CORRECTIVE_PROMPT">>
\* agent.py:566 and discord_bot.py:156
ApprovalReply == <<"GOT_IT">>
ResetReply == <<"STARTED_NEW">>
\* agent.py:457: the framing put around a draft
DraftHeader == "**Draft for your approval:**"
DraftFooter == "*Please review"
WrapDraft(content) == <<DraftHeader, "NL", "NL">> \o content \o <<"NL", "NL", DraftFooter>>

\* agent.py:565 and discord_bot.py:159 (the same list), discord_bot.py:152
ApprovalVocabulary == {<<"send", " ", "it">>, <<"looks", " ", "good">>, <<"approved">>,
                       <<"yes">>, <<"ok">>, <<"okay">>}
ResetVocabulary == {<<"new", " ", "conversation">>, <<"reset">>, <<"start", " ", "over">>}

\* message.lower().strip()
Normalized(message) == Strip(Lower(message))

(***************************************************************************)
(* Inputs of the model.                                                    *)
(***************************************************************************)
Users == {"u1", "u2"}
NoUser == "None"

\* Messages a user sends (discord_bot.py:63 strips them, non-empty).
Messages == {<<"hi">>, <<"Send", " ", "it">>, <<"reset">>}
DirectTasks == {<<"hi">>}

\* Texts the model backend returns.
Responses == {
    <<"THOUGHT:", " ", "t", "NL", "FOCUS:", " ", "f1", ".", "NL", "FINAL_ANSWER:", " ", "done", " ">>,
    <<"DRAFT_FOR_APPROVAL:", " ", "dear">>,
    <<"THOUGHT:", " ", "t", "NL", "ACTION:", " ", "search_emails", "NL", "ACTION_INPUT:", " ", "{q}">>,
    <<"FOCUS:", " ", "f2", "NL", "ACTION:", "nosuch", "NL", "ACTION_INPUT:", "{bad">>,
    <<"ACTION:", "search_emails", "NL", "ACTION_INPUT:", "[]">>,
    <<"THOUGHT:", " ", "t">>
}

\* Texts of the model backend that contain none of the markers.
PlainTexts == {<<"hi">>, <<" ", "hi", "NL">>}

\* Tools in the registry (tools.py:44-46) and what a handler returns or raises.
RegisteredTools == {"search_emails"}
ToolResult == <<"No emails found">>
ToolErrorText == <<"handler error">>
UnknownToolText(name) == <<"Unknown tool: ", name>>
NotMappingText == <<"argument after ** must be a mapping">>

\* InteractionsStore.get_conversation: limit(20)
HistoryLimit == 20

(***************************************************************************)
(* State.                                                                  *)
(***************************************************************************)
VARIABLES
    registry_has_set_user,  \* Agent.tool_registry provides set_current_user_id
    log_store_accepts,      \* Agent.llm_log_store.log_request accepts the keywords _call_llm passes
    interactions,           \* the interactions table, in created_at order
    llm_logs,               \* the llm_logs table
    focus,                  \* the current_focus table: rows of user_id and focus
    set_focus_calls,        \* the set_focus calls made so far, as <<user_id, focus>>
    next_conversation_id,   \* create_conversation_id: the next fresh id
    user_conversations,     \* ConversationManager.user_conversations (0 is None)
    pending_drafts,         \* ConversationManager.pending_drafts
    lost_conversations,     \* per user, the conversation a restart made the manager forget
    threads,                \* per user, the handle_message call that overlaps with others
    pc,                     \* position of the turn being served
    caller,                 \* "manager": run called by handle_message; "direct": by a script
    user_id, task,          \* arguments of Agent.run
    mgr_conversation_id,    \* handle_message's local conversation_id
    conversation_id,        \* Agent.run's local conversation_id
    history, current_prompt, i, final_response, extracted_focus, current_focus,
    collected_tool_observations,
    response_text, response, observation, log_entry,  \* locals of the last iteration
    tool_error,             \* str(e) of the last tool dispatch, None when it returned
    sent,                   \* the message list of the last model call
    result,                 \* what the top-level call returned
    raised_by,              \* what made the top-level call raise
    llm_calls, model_errors, log_failures, action_responses, tool_attempts,
    handler_calls,          \* counts of this turn
    turn_base,              \* Len(interactions) when the turn started
    turns,                  \* number of top-level calls so far
    total_calls,            \* number of model calls so far
    faults,                 \* number of injected collaborator failures so far
    context_failure,        \* the call of _get_memory_context that raised in this turn
    memory_failed,          \* the try block of agent.py:529-542 raised in this turn
    channel                 \* the last response given to _send_response and the messages sent

store_vars == <<interactions, llm_logs, focus, next_conversation_id>>
manager_vars == <<user_conversations, pending_drafts>>
wiring_vars == <<registry_has_set_user, log_store_accepts>>
loop_vars == <<history, current_prompt, i, final_response, extracted_focus,
               collected_tool_observations, response_text, response, observation,
               tool_error, log_entry, sent>>
fault_vars == <<context_failure, memory_failed>>
count_vars == <<llm_calls, model_errors, log_failures, action_responses, tool_attempts,
                handler_calls>>
vars == <<registry_has_set_user, log_store_accepts, channel, interactions, llm_logs, focus,
          set_focus_calls, lost_conversations, threads,
          next_conversation_id, user_conversations, pending_drafts, pc, caller,
          user_id, task, mgr_conversation_id, conversation_id, history,
          current_prompt, i, final_response, extracted_focus, current_focus,
          collected_tool_observations, response_text, response, observation,
          tool_error, log_entry, sent, result, raised_by, llm_calls, model_errors,
          log_failures, action_responses, tool_attempts, handler_calls, turn_base, turns,
          total_calls, faults, context_failure, memory_failed>>

\* 1 for an injected failure, 0 otherwise
Fault(ok) == IF ok THEN 0 ELSE 1

NoResponse == AgentResponse("None", <<>>, NoName, NoInput, None)

Metadata(type, needs_approval, tool_name) ==
    [type |-> type, needs_approval |-> needs_approval, tool_name |-> tool_name]

\* FocusStore.get_focus (focus_store.py:22-40): the focus of the first row
\* selected for the user, None when there is none
GetFocus(table, u) ==
    LET selected == SelectSeq(table, LAMBDA row : row.user_id = u)
    IN IF selected = <<>> THEN None ELSE selected[1].focus

\* A set_focus that inserts a row whether or not the user has one.
SetFocusInsert(table, u, f) == Append(table, [user_id |-> u, focus |-> f])

\* FocusStore.set_focus (focus_store.py:42-57): upsert with
\* on_conflict="user_id"
SetFocus(table, u, f) ==
    IF \E k \in DOMAIN table : table[k].user_id = u
    THEN [k \in DOMAIN table |->
             IF table[k].user_id = u THEN [table[k] EXCEPT !.focus = f] ELSE table[k]]
    ELSE Append(table, [user_id |-> u, focus |-> f])

\* An add_message whose row comes before the rows already there.
AddMessageFirst(rows, cid, role, content, metadata) ==
    <<[conversation_id |-> cid, role |-> role, content |-> content, metadata |-> metadata]>>
        \o rows

\* InteractionsStore.add_message: one row appended
AddMessage(rows, cid, role, content, metadata) ==
    Append(rows, [conversation_id |-> cid, role |-> role, content |-> content,
                  metadata |-> metadata])

LastN(s, n) == IF Len(s) <= n THEN s ELSE SubSeq(s, Len(s) - n + 1, Len(s))

\* A get_conversation that returns the first 20 rows of the conversation.
GetConversationOldest(rows, cid) ==
    LET mine == SelectSeq(rows, LAMBDA row : row.conversation_id = cid)
    IN IF Len(mine) <= HistoryLimit THEN mine ELSE SubSeq(mine, 1, HistoryLimit)

\* InteractionsStore.get_conversation: the last 20 rows of the conversation,
\* oldest first
GetConversation(rows, cid) ==
    LET InConversation(row) == row.conversation_id = cid
    IN LastN(SelectSeq(rows, InConversation), HistoryLimit)

\* InteractionsStore.get_recent_conversations(1)
GetRecentConversation(rows) ==
    IF rows = <<>> THEN 0 ELSE rows[Len(rows)].conversation_id

\* Agent.run: previous interactions converted to history
LoadHistory(prev) ==
    [k \in 1..Len(prev) |->
        [role |-> IF prev[k].role = "agent" THEN "assistant"
                  ELSE IF prev[k].role = "tool" THEN "user"
                  ELSE prev[k].role,
         content |-> prev[k].content]]

\* Agent._call_llm: the message list sent to the model
ToMessages(h, user_message) ==
    [k \in 1..Len(h) |->
        [role |-> IF h[k].role = "agent" THEN "assistant" ELSE h[k].role,
         content |-> h[k].content]]
    \o <<[role |-> "user", content |-> user_message]>>

(***************************************************************************)
(* Exception handling: the call sites that Agent wraps in try/except       *)
(* Exception.  A failure at any other site propagates out of Agent.run.    *)
(*   model_backend             agent.py:139-176, 180-216                   *)
(*   log_request               agent.py:159-175, 199-215, 222-240          *)
(*   tool_execute              agent.py:462-469                            *)
(*   update_tool_observations  agent.py:494-500                            *)
(*   memory_context            agent.py:400-403                            *)
(*   memory_store              agent.py:529-542                            *)
(* InteractionsStore.add_message (agent.py:391, 444, 453, 472, 478, 522,   *)
(* 559) and set_current_user_id (agent.py:374) are called outside any try. *)
(***************************************************************************)
\* The same sites without the try/except around the tool dispatch.
ExceptionHandledExceptTool(site) ==
    site \in {"model_backend", "log_request", "update_tool_observations",
              "memory_context", "memory_store"}

\* The same sites without the try/except around the audit-log calls.
ExceptionHandledExceptLog(site) ==
    site \in {"model_backend", "tool_execute", "memory_context", "memory_store"}

\* The same sites without the try/except around the memory context
\* (agent.py:399-403) and around the memory and focus update (agent.py:529-542).
ExceptionHandledExceptMemory(site) ==
    site \in {"model_backend", "log_request", "tool_execute", "update_tool_observations"}

ExceptionHandled(site) ==
    site \in {"model_backend", "log_request", "tool_execute",
              "update_tool_observations", "memory_context", "memory_store"}

(***************************************************************************)
(* DiscordBot._send_response (discord_bot.py:79-102).  A text is the       *)
(* sequence of the lengths of its lines (what split("\n") gives), so the   *)
(* empty text is <<0>>; texts joined by newlines are the concatenation of  *)
(* their line sequences.                                                   *)
(***************************************************************************)
MaxLength == 2000

RECURSIVE SumOf(_)
SumOf(lines) == IF lines = <<>> THEN 0 ELSE Head(lines) + SumOf(Tail(lines))

\* len(text): the characters of the lines and the newlines between them
StrLen(lines) == SumOf(lines) + Len(lines) - 1

\* discord_bot.py:90-96 and 98-99: the loop over the lines, then the flush
RECURSIVE SplitChunks(_, _, _)
SplitChunks(lines, chunks, current_chunk) ==
    LET flushed == IF current_chunk # <<0>> THEN Append(chunks, current_chunk) ELSE chunks
    IN IF lines = <<>> THEN flushed
       ELSE LET line == Head(lines)
            IN IF StrLen(current_chunk) + line + 1 > MaxLength
               THEN SplitChunks(Tail(lines), flushed, <<line>>)
               ELSE SplitChunks(Tail(lines), chunks,
                                IF current_chunk # <<0>> THEN Append(current_chunk, line)
                                ELSE <<line>>)

\* The messages passed to channel.send, in order.
SentMessages(response_lines) ==
    IF StrLen(response_lines) <= MaxLength THEN <<response_lines>>
    ELSE SplitChunks(response_lines, <<>>, <<0>>)

\* a handle_message call that has not started
IdleThread == [pc |-> "idle", conversation_id |-> 0, task |-> <<>>, final_response |-> None]

\* The state after construction, with a text at hand for _parse_response.
InitOn(texts) ==
    /\ registry_has_set_user \in BOOLEAN
    /\ log_store_accepts \in BOOLEAN
    /\ interactions = <<>>
    /\ llm_logs = <<>>
    /\ focus = <<>>
    /\ set_focus_calls = <<>>
    /\ next_conversation_id = 1
    /\ user_conversations = [u \in Users |-> 0]
    /\ pending_drafts = [u \in Users |-> None]
    /\ lost_conversations = [u \in Users |-> 0]
    /\ threads = [u \in Users |-> IdleThread]
    /\ pc = "idle"
    /\ caller = "None"
    /\ user_id = NoUser
    /\ task = <<>>
    /\ mgr_conversation_id = 0
    /\ conversation_id = 0
    /\ history = <<>>
    /\ current_prompt = <<>>
    /\ i = 0
    /\ final_response = None
    /\ extracted_focus = None
    /\ current_focus = None
    /\ collected_tool_observations = <<>>
    /\ response_text \in texts
    /\ response = NoResponse
    /\ observation = None
    /\ tool_error = None
    /\ log_entry = 0
    /\ sent = [iteration |-> 0, messages |-> <<>>]
    /\ result = None
    /\ raised_by = "None"
    /\ llm_calls = 0
    /\ model_errors = 0
    /\ log_failures = 0
    /\ action_responses = 0
    /\ tool_attempts = 0
    /\ handler_calls = 0
    /\ turn_base = 0
    /\ turns = 0
    /\ total_calls = 0
    /\ faults = 0
    /\ context_failure = "None"
    /\ memory_failed = FALSE
    /\ channel = [response |-> <<0>>, sent |-> <<>>]

Init == InitOn({<<>>})

\* A new top-level call can be made when none is being served.
CanStartTurn == pc \in {"idle", "returned", "raised"} /\ turns < MaxTurns

\* A turn that reaches Agent.run starts only while a model call is left.
CanStartRun == CanStartTurn /\ total_calls < MaxCalls

\* The users are interchangeable: the first turn of a behaviour is u1's.
CanSend(u) == CanStartTurn /\ (turns = 0 => u = "u1")

\* The locals and counts of a turn, as they are before Agent.run starts.
ResetTurn ==
    /\ history' = <<>>
    /\ current_prompt' = <<>>
    /\ i' = 0
    /\ final_response' = None
    /\ extracted_focus' = None
    /\ current_focus' = None
    /\ collected_tool_observations' = <<>>
    /\ response_text' = <<>>
    /\ response' = NoResponse
    /\ observation' = None
    /\ tool_error' = None
    /\ log_entry' = 0
    /\ sent' = [iteration |-> 0, messages |-> <<>>]
    /\ llm_calls' = 0
    /\ model_errors' = 0
    /\ log_failures' = 0
    /\ action_responses' = 0
    /\ tool_attempts' = 0
    /\ handler_calls' = 0
    /\ turn_base' = Len(interactions)
    /\ turns' = turns + 1
    /\ context_failure' = "None"
    /\ memory_failed' = FALSE

(***************************************************************************)
(* ConversationManager.handle_message (discord_bot.py:137-187) and a       *)
(* direct call of Agent.run (main.py:146).                                 *)
(***************************************************************************)
\* discord_bot.py:152-156: a reset command
ManagerReset(u, message) ==
    /\ CanSend(u)
    /\ Normalized(message) \in ResetVocabulary
    /\ ResetTurn
    /\ caller' = "manager"
    /\ user_id' = u
    /\ task' = message
    /\ mgr_conversation_id' = next_conversation_id
    /\ conversation_id' = 0
    /\ next_conversation_id' = next_conversation_id + 1
    /\ user_conversations' = [user_conversations EXCEPT ![u] = next_conversation_id]
    /\ pending_drafts' = [pending_drafts EXCEPT ![u] = None]
    /\ lost_conversations' = [lost_conversations EXCEPT ![u] = 0]
    /\ result' = ResetReply
    /\ raised_by' = "None"
    /\ pc' = "returned"
    /\ UNCHANGED <<wiring_vars, channel, threads, set_focus_calls, interactions, llm_logs, focus,
                   total_calls, faults>>

\* discord_bot.py:158-162 with Agent.handle_feedback (agent.py:546-566): a
\* message in the approval vocabulary when the user has a conversation
ManagerApproval(u, message, store_ok) ==
    /\ CanSend(u)
    /\ Normalized(message) \notin ResetVocabulary
    /\ user_conversations[u] # 0
    /\ Normalized(message) \in ApprovalVocabulary
    /\ faults + Fault(store_ok) <= MaxFaults
    /\ faults' = faults + Fault(store_ok)
    /\ ResetTurn
    /\ caller' = "manager"
    /\ user_id' = u
    /\ task' = message
    /\ mgr_conversation_id' = user_conversations[u]
    /\ conversation_id' = user_conversations[u]
    /\ pending_drafts' = [pending_drafts EXCEPT ![u] = None]
    /\ IF store_ok \/ ExceptionHandled("add_message")
       THEN /\ interactions' = IF store_ok
                               THEN AddMessage(interactions, user_conversations[u], "user",
                                               message, Metadata("feedback", FALSE, NoName))
                               ELSE interactions
            /\ result' = ApprovalReply
            /\ raised_by' = "None"
            /\ pc' = "returned"
       ELSE /\ interactions' = interactions
            /\ result' = None
            /\ raised_by' = "add_message"
            /\ pc' = "raised"
    /\ UNCHANGED <<wiring_vars, channel, threads, set_focus_calls, lost_conversations, llm_logs, focus,
                   next_conversation_id, user_conversations,
                   total_calls>>

\* discord_bot.py:164-170: every other message runs the agent
ManagerRun(u, message) ==
    /\ CanStartRun
    /\ CanSend(u)
    /\ Normalized(message) \notin ResetVocabulary
    /\ ~(user_conversations[u] # 0 /\ Normalized(message) \in ApprovalVocabulary)
    /\ ResetTurn
    /\ caller' = "manager"
    /\ user_id' = u
    /\ task' = message
    /\ mgr_conversation_id' = user_conversations[u]
    /\ conversation_id' = user_conversations[u]
    /\ result' = None
    /\ raised_by' = "None"
    /\ pc' = "run"
    /\ UNCHANGED <<wiring_vars, channel, threads, set_focus_calls, lost_conversations, store_vars,
                   manager_vars, total_calls, faults>>

\* main.py:146: agent.run(task) with no conversation id and no user id
RunDirect(message) ==
    /\ CanStartRun
    /\ ResetTurn
    /\ caller' = "direct"
    /\ user_id' = NoUser
    /\ task' = message
    /\ mgr_conversation_id' = 0
    /\ conversation_id' = 0
    /\ result' = None
    /\ raised_by' = "None"
    /\ pc' = "run"
    /\ UNCHANGED <<wiring_vars, channel, threads, set_focus_calls, lost_conversations, store_vars,
                   manager_vars, total_calls, faults>>

(***************************************************************************)
(* Agent._get_memory_context (agent.py:328-353) as Agent.run calls it      *)
(* (agent.py:399-403).                                                     *)
(***************************************************************************)
\* The calls of _get_memory_context that can raise: FocusStore.get_focus
\* (agent.py:340), made first, and EmbeddingService.get_embedding
\* (agent.py:343), made after the focus was read. A failure of
\* search_similar (346) or get_recent (350) leaves Agent.run in the same
\* state as one of get_embedding.
ContextSites == {"get_focus", "get_embedding"}

\* _get_memory_context returned its tuple
ContextLoaded(ctx_failure) == ctx_failure = "None"

\* A context assembler that keeps the focus it read when a later call raises.
FocusInContextPartial(table, u, ctx_failure) ==
    IF ctx_failure = "get_focus" THEN None ELSE GetFocus(table, u)

\* agent.py:400: the four locals are assigned from the returned tuple, so
\* current_focus stays None whenever any call raised
FocusInContext(table, u, ctx_failure) ==
    IF ContextLoaded(ctx_failure) THEN GetFocus(table, u) ELSE None

(***************************************************************************)
(* Agent.run, entry (agent.py:368-420).                                    *)
(***************************************************************************)
RunStart(store_ok, ctx_failure) ==
    /\ pc = "run"
    /\ (user_id # NoUser /\ ~registry_has_set_user) => (store_ok /\ ContextLoaded(ctx_failure))
    /\ (user_id = NoUser \/ (~store_ok /\ ~ExceptionHandled("add_message")))
          => ContextLoaded(ctx_failure)
    /\ faults + Fault(store_ok) + Fault(ContextLoaded(ctx_failure)) <= MaxFaults
    /\ faults' = faults + Fault(store_ok) + Fault(ContextLoaded(ctx_failure))
    /\ context_failure' = ctx_failure
    /\ LET cid == IF conversation_id = 0 THEN next_conversation_id ELSE conversation_id
       IN /\ conversation_id' = cid
          /\ next_conversation_id' = IF conversation_id = 0 THEN next_conversation_id + 1
                                     ELSE next_conversation_id
          /\ IF user_id # NoUser /\ ~registry_has_set_user
             THEN \* agent.py:374: AttributeError
                  /\ pc' = "raised"
                  /\ raised_by' = "set_current_user_id"
                  /\ UNCHANGED <<interactions, history, current_focus, current_prompt>>
             ELSE IF ~store_ok /\ ~ExceptionHandled("add_message")
             THEN \* agent.py:391: add_message raises
                  /\ pc' = "raised"
                  /\ raised_by' = "add_message"
                  /\ history' = LoadHistory(GetConversation(interactions, cid))
                  /\ UNCHANGED <<interactions, current_focus, current_prompt>>
             ELSE IF ~ContextLoaded(ctx_failure) /\ ~ExceptionHandled("memory_context")
             THEN /\ pc' = "raised"
                  /\ raised_by' = "memory_context"
                  /\ history' = LoadHistory(GetConversation(interactions, cid))
                  /\ interactions' = IF store_ok
                                     THEN AddMessage(interactions, cid, "user", task,
                                                     Metadata("None", FALSE, NoName))
                                     ELSE interactions
                  /\ UNCHANGED <<current_focus, current_prompt>>
             ELSE /\ pc' = "loop"
                  /\ raised_by' = "None"
                  /\ history' = LoadHistory(GetConversation(interactions, cid))
                  /\ interactions' = IF store_ok
                                     THEN AddMessage(interactions, cid, "user", task,
                                                     Metadata("None", FALSE, NoName))
                                     ELSE interactions
                  /\ current_focus' = IF user_id # NoUser
                                      THEN FocusInContext(focus, user_id, ctx_failure)
                                      ELSE None
                  /\ current_prompt' = task
    /\ UNCHANGED <<wiring_vars, channel, threads, set_focus_calls, lost_conversations, llm_logs, focus,
                   manager_vars, caller, user_id, task,
                   mgr_conversation_id, i, final_response, extracted_focus,
                   collected_tool_observations, response_text, response, observation,
                   tool_error, log_entry, sent, result, count_vars, turn_base, turns,
                   total_calls, memory_failed>>

(***************************************************************************)
(* Agent._call_llm (agent.py:86-242).                                      *)
(***************************************************************************)
\* The text _call_llm returns: the model's text, or "" when the backend
\* call raised (agent.py:155-176 and 195-216: the except branch returns "").
CallLLMText(model_ok, text) == IF model_ok THEN text ELSE <<>>

\* Whether log_request stored an entry: the store must accept the keywords
\* passed (agent.py:160-173, 223-236) and the insert must succeed.
LogStored(log_ok) == log_store_accepts /\ log_ok

LogEntryOf(cid, iteration, rt, model_ok, observations) ==
    [conversation_id |-> cid, iteration |-> iteration, response |-> rt,
     error |-> ~model_ok, tool_observations |-> observations]

LogsAfterCall(logs, cid, iteration, rt, model_ok, log_ok, observations) ==
    IF LogStored(log_ok)
    THEN Append(logs, LogEntryOf(cid, iteration, rt, model_ok, observations))
    ELSE logs

(***************************************************************************)
(* Tool dispatch (agent.py:462-469 with ToolRegistry.execute,              *)
(* tools.py:52-57).                                                        *)
(***************************************************************************)
\* search_emails(query, max_results=5) (tools.py:91): the keywords it binds
HandlerAccepts(name, dict) ==
    LET keys == {item[1] : item \in dict}
    IN "query" \in keys /\ keys \subseteq {"query", "max_results"}

BadArgumentsText == <<"unexpected or missing keyword argument">>

\* A registry that runs a catch-all handler for a name it does not know.
HandlerRunsAnyName(name, action_input) ==
    /\ action_input.kind = "dict"
    /\ name \in RegisteredTools => HandlerAccepts(name, action_input.dict)

\* The handler body runs: the input is a mapping, the tool is registered, and
\* the keywords bind.
HandlerRuns(name, action_input) ==
    /\ action_input.kind = "dict"
    /\ name \in RegisteredTools
    /\ HandlerAccepts(name, action_input.dict)

\* str(e) of the exception the dispatch raises, None when it returns
ToolError(name, action_input, handler_ok) ==
    IF action_input.kind # "dict" THEN NotMappingText
    ELSE IF name \notin RegisteredTools THEN UnknownToolText(name)
    ELSE IF ~HandlerAccepts(name, action_input.dict) THEN BadArgumentsText
    ELSE IF handler_ok THEN None
    ELSE ToolErrorText

\* agent.py:467 and agent.py:469
Observation(name, error_text) ==
    IF error_text = None THEN <<"OBSERVATION: ">> \o ToolResult
    ELSE <<"OBSERVATION: ", "Error executing ", name, ": ">> \o error_text

\* A loop that runs a failed tool a second time.
ToolAttemptsWithRetry(type, failed) ==
    IF type = "action" THEN (IF failed THEN 2 ELSE 1) ELSE 0

\* The executions one response causes (agent.py:460-469): one for an action,
\* whether it fails or not, none for any other type.
ToolAttempts(type, failed) == IF type = "action" THEN 1 ELSE 0

(***************************************************************************)
(* Agent.run, one iteration of the loop (agent.py:422-517).                *)
(***************************************************************************)
\* agent.py:502-508
HistoryAfterAction(h, iteration, original_user_task, rt, obs) ==
    (IF iteration = 0 THEN Append(h, [role |-> "user", content |-> original_user_task]) ELSE h)
    \o <<[role |-> "assistant", content |-> rt], [role |-> "user", content |-> obs]>>

\* A thought branch that appends the response without the original message.
HistoryAfterThoughtNoOriginal(h, iteration, original_user_task, rt) ==
    Append(h, [role |-> "assistant", content |-> rt])

\* agent.py:514-516
HistoryAfterThought(h, iteration, original_user_task, rt) ==
    Append(IF iteration = 0 THEN Append(h, [role |-> "user", content |-> original_user_task]) ELSE h,
           [role |-> "assistant", content |-> rt])

\* A loop that stops one iteration early.
LoopContinuesEarlyExit(iteration) == iteration + 2 < MaxIterations

\* agent.py:422: for i in range(max_iterations)
LoopContinues(iteration) == iteration + 1 < MaxIterations

\* agent.py:439-440
\* A loop that keeps the first focus line of a turn.
TrackFocusFirst(old, r) == IF old # None THEN old ELSE r.focus

TrackFocus(old, r) == IF r.focus # None THEN r.focus ELSE old

\* agent.py:446, 455, 524: the metadata of the terminal agent turns
FinalMetadata == Metadata("final_answer", FALSE, NoName)
DraftMetadata == Metadata("draft", TRUE, NoName)
\* A fallback persisted under the type of a genuine answer.
FallbackMetadataAsFinal == Metadata("final_answer", FALSE, NoName)

FallbackMetadata == Metadata("max_iterations_reached", FALSE, NoName)

\* _parse_response on each text _call_llm can return, computed once
ParseTable == [t \in Responses \cup PlainTexts \cup {<<>>} |-> ParseResponse(t)]
Parsed(rt) == ParseTable[rt]

\* The part of the state an iteration changes, as it is before the iteration.
Before ==
    [pc |-> pc, raised_by |-> "None", interactions |-> interactions, llm_logs |-> llm_logs,
     history |-> history, current_prompt |-> current_prompt, i |-> i,
     final_response |-> final_response, collected |-> collected_tool_observations]

Raised(o, site) == [o EXCEPT !.pc = "raised", !.raised_by = site]

Apply(o) ==
    /\ pc' = o.pc
    /\ raised_by' = o.raised_by
    /\ interactions' = o.interactions
    /\ llm_logs' = o.llm_logs
    /\ history' = o.history
    /\ current_prompt' = o.current_prompt
    /\ i' = o.i
    /\ final_response' = o.final_response
    /\ collected_tool_observations' = o.collected

\* _call_llm as called at agent.py:424-433
AfterCall(model_ok, text, log_ok) ==
    LET logs1 == LogsAfterCall(llm_logs, conversation_id, i, CallLLMText(model_ok, text),
                               model_ok, log_ok, collected_tool_observations)
    IN IF ~LogStored(log_ok) /\ ~ExceptionHandled("log_request")
       THEN Raised(Before, "log_request")
       ELSE IF ~model_ok /\ ~ExceptionHandled("model_backend")
       THEN Raised([Before EXCEPT !.llm_logs = logs1], "model_backend")
       ELSE [Before EXCEPT !.llm_logs = logs1]

\* InteractionsStore.add_message called outside any try: the row is
\* appended, or the failure propagates
AfterAddMessage(o, ok, role, content, metadata) ==
    IF o.pc = "raised" THEN o
    ELSE IF ok
    THEN [o EXCEPT !.interactions = AddMessage(@, conversation_id, role, content, metadata)]
    ELSE IF ExceptionHandled("add_message") THEN o
    ELSE Raised(o, "add_message")

\* A final answer that is recorded without leaving the loop.
AfterFinalAnswerNoReturn(o, r, store_ok) ==
    LET o1 == AfterAddMessage(o, store_ok, "agent", r.content, FinalMetadata)
    IN IF o1.pc = "raised" THEN o1
       ELSE [o1 EXCEPT !.final_response = r.content, !.i = i + 1,
                       !.pc = IF LoopContinues(i) THEN "loop" ELSE "after_loop"]

\* agent.py:442-449
AfterFinalAnswer(o, r, store_ok) ==
    LET o1 == AfterAddMessage(o, store_ok, "agent", r.content, FinalMetadata)
    IN IF o1.pc = "raised" THEN o1
       ELSE [o1 EXCEPT !.final_response = r.content, !.pc = "after_loop"]

\* agent.py:451-458
AfterDraft(o, r, store_ok) ==
    LET o1 == AfterAddMessage(o, store_ok, "agent", r.content, DraftMetadata)
    IN IF o1.pc = "raised" THEN o1
       ELSE [o1 EXCEPT !.final_response = WrapDraft(r.content), !.pc = "after_loop"]

\* agent.py:460-510; store_failure is 0 (none), 1 (the add_message of
\* agent.py:472 raises) or 2 (the add_message of agent.py:478 raises)
AfterAction(o, rt, r, error_text, store_failure, logged, update_ok) ==
    LET obs == Observation(r.action_name, error_text)
        tool_observation == [iteration |-> i, tool_name |-> r.action_name, observation |-> obs]
        o1 == IF o.pc # "raised" /\ error_text # None /\ ~ExceptionHandled("tool_execute")
              THEN Raised(o, "tool_execute") ELSE o
        o2 == AfterAddMessage(o1, store_failure # 1, "agent", rt,
                              Metadata("action", FALSE, r.action_name))
        o3 == AfterAddMessage(o2, store_failure # 2, "tool", obs,
                              Metadata("None", FALSE, r.action_name))
        o4 == IF o3.pc = "raised" THEN o3
              ELSE [o3 EXCEPT !.collected = Append(@, tool_observation)]
        o5 == IF o4.pc = "raised" \/ ~logged THEN o4
              ELSE IF update_ok
              THEN [o4 EXCEPT !.llm_logs[Len(o4.llm_logs)].tool_observations =
                                   Append(collected_tool_observations, tool_observation)]
              ELSE IF ExceptionHandled("update_tool_observations") THEN o4
              ELSE Raised(o4, "update_tool_observations")
    IN IF o5.pc = "raised" THEN o5
       ELSE [o5 EXCEPT !.history = HistoryAfterAction(@, i, task, rt, obs),
                       !.current_prompt = ContinuationPrompt,
                       !.i = i + 1,
                       !.pc = IF LoopContinues(i) THEN "loop" ELSE "after_loop"]

\* A thought branch that also persists the thought as an agent turn.
AfterThoughtPersisted(o, rt) ==
    LET o1 == AfterAddMessage(o, TRUE, "agent", rt, Metadata("thought", FALSE, NoName))
    IN IF o1.pc = "raised" THEN o1
       ELSE [o1 EXCEPT !.history = HistoryAfterThought(@, i, task, rt),
                       !.current_prompt = CorrectivePrompt,
                       !.i = i + 1,
                       !.pc = IF LoopContinues(i) THEN "loop" ELSE "after_loop"]

\* A thought branch that drops the response and repeats the last prompt.
AfterThoughtDropped(o, rt) ==
    IF o.pc = "raised" THEN o
    ELSE [o EXCEPT !.i = i + 1,
                   !.pc = IF LoopContinues(i) THEN "loop" ELSE "after_loop"]

\* agent.py:512-517
AfterThought(o, rt) ==
    IF o.pc = "raised" THEN o
    ELSE [o EXCEPT !.history = HistoryAfterThought(@, i, task, rt),
                   !.current_prompt = CorrectivePrompt,
                   !.i = i + 1,
                   !.pc = IF LoopContinues(i) THEN "loop" ELSE "after_loop"]

\* What every iteration does first: the model call and the parse
\* (agent.py:424-440).
CallAndParse(model_ok, text, log_ok) ==
    LET rt == CallLLMText(model_ok, text)
        r == Parsed(rt)
    IN /\ total_calls < MaxCalls
       /\ total_calls' = total_calls + 1
       /\ log_store_accepts \/ log_ok
       /\ response_text' = rt
       /\ response' = r
       /\ sent' = [iteration |-> i, messages |-> ToMessages(history, current_prompt)]
       /\ log_entry' = IF LogStored(log_ok) THEN Len(llm_logs) + 1 ELSE 0
       /\ llm_calls' = llm_calls + 1
       /\ model_errors' = model_errors + Fault(model_ok)
       /\ log_failures' = log_failures + Fault(LogStored(log_ok))
       /\ action_responses' = action_responses + (IF r.type = "action" THEN 1 ELSE 0)
       /\ extracted_focus' = TrackFocus(extracted_focus, r)

IterFinalAnswer(model_ok, text, log_ok, store_ok) ==
    /\ pc = "loop"
    /\ LET r == Parsed(CallLLMText(model_ok, text))
       IN /\ r.type = "final_answer"
          /\ CallAndParse(model_ok, text, log_ok)
          /\ faults + Fault(model_ok) + Fault(log_ok) + Fault(store_ok) <= MaxFaults
          /\ faults' = faults + Fault(model_ok) + Fault(log_ok) + Fault(store_ok)
          /\ tool_attempts' = tool_attempts + ToolAttempts(r.type, FALSE)
          /\ Apply(AfterFinalAnswer(AfterCall(model_ok, text, log_ok), r, store_ok))
    /\ UNCHANGED <<wiring_vars, channel, threads, set_focus_calls, lost_conversations, fault_vars,
                   focus, next_conversation_id, manager_vars, caller,
                   user_id,
                   task, mgr_conversation_id, conversation_id, current_focus, observation,
                   tool_error, result, handler_calls, turn_base, turns>>

IterDraft(model_ok, text, log_ok, store_ok) ==
    /\ pc = "loop"
    /\ LET r == Parsed(CallLLMText(model_ok, text))
       IN /\ r.type = "draft_for_approval"
          /\ CallAndParse(model_ok, text, log_ok)
          /\ faults + Fault(model_ok) + Fault(log_ok) + Fault(store_ok) <= MaxFaults
          /\ faults' = faults + Fault(model_ok) + Fault(log_ok) + Fault(store_ok)
          /\ tool_attempts' = tool_attempts + ToolAttempts(r.type, FALSE)
          /\ Apply(AfterDraft(AfterCall(model_ok, text, log_ok), r, store_ok))
    /\ UNCHANGED <<wiring_vars, channel, threads, set_focus_calls, lost_conversations, fault_vars,
                   focus, next_conversation_id, manager_vars, caller,
                   user_id,
                   task, mgr_conversation_id, conversation_id, current_focus, observation,
                   tool_error, result, handler_calls, turn_base, turns>>

IterAction(model_ok, text, log_ok, handler_ok, store_failure, update_ok) ==
    /\ pc = "loop"
    /\ LET rt == CallLLMText(model_ok, text)
           r == Parsed(rt)
           error_text == ToolError(r.action_name, r.action_input, handler_ok)
       IN /\ r.type = "action"
          /\ CallAndParse(model_ok, text, log_ok)
          /\ update_ok \/ (LogStored(log_ok) /\ store_failure = 0)
          /\ handler_ok \/ HandlerRuns(r.action_name, r.action_input)
          /\ faults + Fault(model_ok) + Fault(log_ok) + Fault(store_failure = 0) + Fault(update_ok)
                <= MaxFaults
          /\ faults' = faults + Fault(model_ok) + Fault(log_ok) + Fault(store_failure = 0)
                          + Fault(update_ok)
          /\ tool_attempts' = tool_attempts + ToolAttempts(r.type, error_text # None)
          /\ handler_calls' = handler_calls
                + (IF HandlerRuns(r.action_name, r.action_input) THEN 1 ELSE 0)
          /\ observation' = Observation(r.action_name, error_text)
          /\ tool_error' = error_text
          /\ Apply(AfterAction(AfterCall(model_ok, text, log_ok), rt, r, error_text,
                               store_failure, LogStored(log_ok), update_ok))
    /\ UNCHANGED <<wiring_vars, channel, threads, set_focus_calls, lost_conversations, fault_vars,
                   focus, next_conversation_id, manager_vars, caller,
                   user_id,
                   task, mgr_conversation_id, conversation_id, current_focus, result,
                   turn_base, turns>>

IterThought(model_ok, text, log_ok) ==
    /\ pc = "loop"
    /\ LET rt == CallLLMText(model_ok, text)
           r == Parsed(rt)
       IN /\ r.type = "thought"
          /\ CallAndParse(model_ok, text, log_ok)
          /\ faults + Fault(model_ok) + Fault(log_ok) <= MaxFaults
          /\ faults' = faults + Fault(model_ok) + Fault(log_ok)
          /\ tool_attempts' = tool_attempts + ToolAttempts(r.type, FALSE)
          /\ Apply(AfterThought(AfterCall(model_ok, text, log_ok), rt))
    /\ UNCHANGED <<wiring_vars, channel, threads, set_focus_calls, lost_conversations, fault_vars,
                   focus, next_conversation_id, manager_vars, caller,
                   user_id,
                   task, mgr_conversation_id, conversation_id, current_focus, observation,
                   tool_error, result, handler_calls, turn_base, turns>>

(***************************************************************************)
(* Agent.run after the loop (agent.py:519-544).                            *)
(***************************************************************************)
RunFinish(store_ok, memory_ok) ==
    /\ pc = "after_loop"
    /\ final_response # None => store_ok
    /\ (user_id = NoUser \/ (~store_ok /\ ~ExceptionHandled("add_message"))) => memory_ok
    /\ faults + Fault(store_ok) + Fault(memory_ok) <= MaxFaults
    /\ faults' = faults + Fault(store_ok) + Fault(memory_ok)
    /\ memory_failed' = ~memory_ok
    /\ LET exhausted == final_response = None
           reply == IF exhausted THEN ApologyFallback ELSE final_response
       IN IF exhausted /\ ~store_ok /\ ~ExceptionHandled("add_message")
          THEN \* agent.py:522: add_message raises
               /\ pc' = "raised"
               /\ raised_by' = "add_message"
               /\ final_response' = reply
               /\ UNCHANGED <<interactions, focus, set_focus_calls, result>>
          ELSE IF ~memory_ok /\ ~ExceptionHandled("memory_store")
          THEN /\ pc' = "raised"
               /\ raised_by' = "memory_store"
               /\ final_response' = reply
               /\ interactions' = IF exhausted /\ store_ok
                                  THEN AddMessage(interactions, conversation_id, "agent", reply,
                                                  FallbackMetadata)
                                  ELSE interactions
               /\ UNCHANGED <<focus, set_focus_calls, result>>
          ELSE /\ final_response' = reply
               /\ interactions' = IF exhausted /\ store_ok
                                  THEN AddMessage(interactions, conversation_id, "agent", reply,
                                                  FallbackMetadata)
                                  ELSE interactions
               /\ IF user_id # NoUser /\ memory_ok /\ extracted_focus # None
                  THEN \* agent.py:539-540
                       /\ focus' = SetFocus(focus, user_id, extracted_focus)
                       /\ set_focus_calls' = Append(set_focus_calls,
                                                    <<user_id, extracted_focus>>)
                  ELSE UNCHANGED <<focus, set_focus_calls>>
               /\ raised_by' = "None"
               /\ IF caller = "manager"
                  THEN pc' = "run_returned" /\ result' = result
                  ELSE pc' = "returned" /\ result' = reply
    /\ UNCHANGED <<wiring_vars, channel, threads, lost_conversations, llm_logs, next_conversation_id,
                   manager_vars, caller, user_id,
                   task, mgr_conversation_id, conversation_id, history, current_prompt, i,
                   extracted_focus, current_focus, collected_tool_observations,
                   response_text, response, observation, tool_error, log_entry, sent,
                   count_vars, turn_base, turns, total_calls, context_failure>>

(***************************************************************************)
(* ConversationManager.handle_message after Agent.run returned              *)
(* (discord_bot.py:172-187).                                               *)
(***************************************************************************)
\* discord_bot.py:176-177
DraftContentOf(reply) ==
    Strip(TakeUntil(AfterFirst(reply, DraftHeader), {DraftFooter}))

\* A manager that never records the conversation a run created.
TrackConversationNever(tracked, u, local_conversation_id, rows) == tracked

\* discord_bot.py:181-185
TrackConversation(tracked, u, local_conversation_id, rows) ==
    IF local_conversation_id = 0 /\ GetRecentConversation(rows) # 0
    THEN [tracked EXCEPT ![u] = GetRecentConversation(rows)]
    ELSE tracked

ManagerReturn ==
    /\ pc = "run_returned"
    /\ pending_drafts' =
          IF Contains(final_response, DraftHeader)
          THEN [pending_drafts EXCEPT ![user_id] = DraftContentOf(final_response)]
          ELSE pending_drafts
    /\ user_conversations' =
          TrackConversation(user_conversations, user_id, mgr_conversation_id, interactions)
    /\ lost_conversations' = [lost_conversations EXCEPT ![user_id] = 0]
    /\ result' = final_response
    /\ pc' = "returned"
    /\ UNCHANGED <<wiring_vars, channel, threads, set_focus_calls, fault_vars, store_vars, caller,
                   user_id, task,
                   mgr_conversation_id,
                   conversation_id, loop_vars, current_focus, raised_by, count_vars,
                   turn_base, turns, total_calls, faults>>

\* The process is stopped and started again between two turns: the stores
\* keep their rows, ConversationManager is constructed anew
\* (discord_bot.py:126-135).
Restart ==
    /\ pc \in {"idle", "returned", "raised"}
    /\ \E u \in Users : user_conversations[u] # 0
    /\ user_conversations' = [u \in Users |-> 0]
    /\ pending_drafts' = [u \in Users |-> None]
    /\ lost_conversations' =
          [u \in Users |-> IF user_conversations[u] # 0 THEN user_conversations[u]
                           ELSE lost_conversations[u]]
    /\ pc' = "idle"
    /\ UNCHANGED <<wiring_vars, channel, threads, set_focus_calls, fault_vars, store_vars, caller,
                   user_id, task,
                   mgr_conversation_id, conversation_id, loop_vars, current_focus, result,
                   raised_by, count_vars, turn_base, turns, total_calls, faults>>

Next ==
    \/ \E u \in Users, m \in Messages : ManagerReset(u, m)
    \/ \E u \in Users, m \in Messages, store_ok \in BOOLEAN : ManagerApproval(u, m, store_ok)
    \/ \E u \in Users, m \in Messages : ManagerRun(u, m)
    \/ \E m \in DirectTasks : RunDirect(m)
    \/ \E store_ok \in BOOLEAN, ctx_failure \in ContextSites \cup {"None"} :
          RunStart(store_ok, ctx_failure)
    \/ \E model_ok \in BOOLEAN, text \in Responses, log_ok \in BOOLEAN, store_ok \in BOOLEAN :
          IterFinalAnswer(model_ok, text, log_ok, store_ok)
    \/ \E model_ok \in BOOLEAN, text \in Responses, log_ok \in BOOLEAN, store_ok \in BOOLEAN :
          IterDraft(model_ok, text, log_ok, store_ok)
    \/ \E model_ok \in BOOLEAN, text \in Responses, log_ok \in BOOLEAN, handler_ok \in BOOLEAN,
          store_failure \in 0..2, update_ok \in BOOLEAN :
          IterAction(model_ok, text, log_ok, handler_ok, store_failure, update_ok)
    \/ \E model_ok \in BOOLEAN, text \in Responses, log_ok \in BOOLEAN :
          IterThought(model_ok, text, log_ok)
    \/ \E store_ok \in BOOLEAN, memory_ok \in BOOLEAN : RunFinish(store_ok, memory_ok)
    \/ ManagerReturn
    \/ Restart

Spec == Init /\ [][Next]_vars

(***************************************************************************)
(* Agent.run called on its own, as main.py:138-147 does: the repository's  *)
(* tool registry, no conversation manager.                                 *)
(***************************************************************************)
InitRun == Init /\ ~registry_has_set_user

NextRun ==
    \/ \E m \in DirectTasks : RunDirect(m)
    \/ \E store_ok \in BOOLEAN, ctx_failure \in ContextSites \cup {"None"} :
          RunStart(store_ok, ctx_failure)
    \/ \E model_ok \in BOOLEAN, text \in Responses, log_ok \in BOOLEAN, store_ok \in BOOLEAN :
          IterFinalAnswer(model_ok, text, log_ok, store_ok)
    \/ \E model_ok \in BOOLEAN, text \in Responses, log_ok \in BOOLEAN, store_ok \in BOOLEAN :
          IterDraft(model_ok, text, log_ok, store_ok)
    \/ \E model_ok \in BOOLEAN, text \in Responses, log_ok \in BOOLEAN, handler_ok \in BOOLEAN,
          store_failure \in 0..2, update_ok \in BOOLEAN :
          IterAction(model_ok, text, log_ok, handler_ok, store_failure, update_ok)
    \/ \E model_ok \in BOOLEAN, text \in Responses, log_ok \in BOOLEAN :
          IterThought(model_ok, text, log_ok)
    \/ \E store_ok \in BOOLEAN, memory_ok \in BOOLEAN : RunFinish(store_ok, memory_ok)

SpecRun == InitRun /\ [][NextRun]_vars

(***************************************************************************)
(* Agent.run called on its own with a model backend that also answers in   *)
(* plain text; the only fault is a failing model call, which gives the     *)
(* empty text.                                                             *)
(***************************************************************************)
NextThought ==
    \/ \E m \in DirectTasks : RunDirect(m)
    \/ RunStart(TRUE, "None")
    \/ \E text \in Responses : IterFinalAnswer(TRUE, text, TRUE, TRUE)
    \/ \E text \in Responses : IterDraft(TRUE, text, TRUE, TRUE)
    \/ \E text \in Responses, handler_ok \in BOOLEAN :
          IterAction(TRUE, text, TRUE, handler_ok, 0, TRUE)
    \/ \E model_ok \in BOOLEAN, text \in Responses \cup PlainTexts :
          IterThought(model_ok, text, TRUE)
    \/ RunFinish(TRUE, TRUE)

SpecThought == InitRun /\ [][NextThought]_vars

(***************************************************************************)
(* Conversations through ConversationManager.handle_message without reset  *)
(* commands, with a tool registry that offers set_current_user_id and the  *)
(* repository's LLMLogStore.                                               *)
(***************************************************************************)
InitChat == Init /\ registry_has_set_user /\ ~log_store_accepts

NextChat ==
    \/ \E u \in Users, m \in Messages, store_ok \in BOOLEAN : ManagerApproval(u, m, store_ok)
    \/ \E u \in Users, m \in Messages : ManagerRun(u, m)
    \/ \E store_ok \in BOOLEAN, ctx_failure \in {"None", "get_embedding"} :
          RunStart(store_ok, ctx_failure)
    \/ \E model_ok \in BOOLEAN, text \in Responses, log_ok \in BOOLEAN, store_ok \in BOOLEAN :
          IterFinalAnswer(model_ok, text, log_ok, store_ok)
    \/ \E model_ok \in BOOLEAN, text \in Responses, log_ok \in BOOLEAN, store_ok \in BOOLEAN :
          IterDraft(model_ok, text, log_ok, store_ok)
    \/ \E model_ok \in BOOLEAN, text \in Responses, log_ok \in BOOLEAN, handler_ok \in BOOLEAN,
          store_failure \in 0..2, update_ok \in BOOLEAN :
          IterAction(model_ok, text, log_ok, handler_ok, store_failure, update_ok)
    \/ \E model_ok \in BOOLEAN, text \in Responses, log_ok \in BOOLEAN :
          IterThought(model_ok, text, log_ok)
    \/ \E store_ok \in BOOLEAN, memory_ok \in BOOLEAN : RunFinish(store_ok, memory_ok)
    \/ ManagerReturn

SpecChat == InitChat /\ [][NextChat]_vars

(***************************************************************************)
(* Turns through ConversationManager.handle_message in which only the      *)
(* memory collaborators fail: the focus store, the embedding service and   *)
(* the memory store, at the start of a turn or at its end.                 *)
(***************************************************************************)
NextMemory ==
    \/ \E u \in Users, m \in Messages : ManagerRun(u, m)
    \/ \E ctx_failure \in ContextSites \cup {"None"} : RunStart(TRUE, ctx_failure)
    \/ \E text \in Responses : IterFinalAnswer(TRUE, text, TRUE, TRUE)
    \/ \E text \in Responses : IterDraft(TRUE, text, TRUE, TRUE)
    \/ \E text \in Responses, handler_ok \in BOOLEAN :
          IterAction(TRUE, text, TRUE, handler_ok, 0, TRUE)
    \/ \E text \in Responses : IterThought(TRUE, text, TRUE)
    \/ \E memory_ok \in BOOLEAN : RunFinish(TRUE, memory_ok)
    \/ ManagerReturn

SpecMemory == InitChat /\ [][NextMemory]_vars

(***************************************************************************)
(* The same conversations with restarts of the process between turns.      *)
(***************************************************************************)
NextRestart ==
    \/ \E u \in Users, m \in Messages, store_ok \in BOOLEAN : ManagerApproval(u, m, store_ok)
    \/ \E u \in Users, m \in Messages : ManagerRun(u, m)
    \/ \E store_ok \in BOOLEAN, ctx_failure \in ContextSites \cup {"None"} :
          RunStart(store_ok, ctx_failure)
    \/ \E model_ok \in BOOLEAN, text \in Responses, log_ok \in BOOLEAN, store_ok \in BOOLEAN :
          IterFinalAnswer(model_ok, text, log_ok, store_ok)
    \/ \E model_ok \in BOOLEAN, text \in Responses, log_ok \in BOOLEAN, store_ok \in BOOLEAN :
          IterDraft(model_ok, text, log_ok, store_ok)
    \/ \E model_ok \in BOOLEAN, text \in Responses, log_ok \in BOOLEAN, handler_ok \in BOOLEAN,
          store_failure \in 0..2, update_ok \in BOOLEAN :
          IterAction(model_ok, text, log_ok, handler_ok, store_failure, update_ok)
    \/ \E model_ok \in BOOLEAN, text \in Responses, log_ok \in BOOLEAN :
          IterThought(model_ok, text, log_ok)
    \/ \E store_ok \in BOOLEAN, memory_ok \in BOOLEAN : RunFinish(store_ok, memory_ok)
    \/ ManagerReturn
    \/ Restart

SpecRestart == InitChat /\ [][NextRestart]_vars

(***************************************************************************)
(* Agent.run and Agent.handle_feedback called on their own: a script runs  *)
(* a task and then gives feedback on one of the conversations so far.      *)
(***************************************************************************)
\* agent.py:569-570: the task handle_feedback runs for an edit or correction
FeedbackTask(feedback) ==
    <<"The user provided this feedback on the previous draft: ">> \o feedback
        \o <<". Please incorporate their feedback.">>

\* Agent.handle_feedback (agent.py:546-573) without a user id: the feedback
\* is persisted; approval words are answered at once, any other feedback is
\* run as a task in the same conversation
HandleFeedback(cid, feedback, store_ok) ==
    LET approval == Normalized(feedback) \in ApprovalVocabulary
        stored == store_ok \/ ExceptionHandled("add_message")
    IN /\ CanStartTurn
       /\ cid \in 1..(next_conversation_id - 1)
       /\ approval \/ CanStartRun
       /\ faults + Fault(store_ok) <= MaxFaults
       /\ faults' = faults + Fault(store_ok)
       /\ ResetTurn
       /\ caller' = "direct"
       /\ user_id' = NoUser
       /\ mgr_conversation_id' = 0
       /\ conversation_id' = cid
       /\ task' = IF stored /\ ~approval THEN FeedbackTask(feedback) ELSE feedback
       /\ interactions' = IF store_ok
                          THEN AddMessage(interactions, cid, "user", feedback,
                                          Metadata("feedback", FALSE, NoName))
                          ELSE interactions
       /\ result' = IF stored /\ approval THEN ApprovalReply ELSE None
       /\ raised_by' = IF stored THEN "None" ELSE "add_message"
       /\ pc' = IF ~stored THEN "raised" ELSE IF approval THEN "returned" ELSE "run"
       /\ UNCHANGED <<wiring_vars, channel, threads, set_focus_calls, lost_conversations, llm_logs,
                      focus, next_conversation_id, manager_vars, total_calls>>

InitFeedback == Init /\ ~registry_has_set_user /\ ~log_store_accepts

NextFeedback ==
    \/ \E m \in DirectTasks : RunDirect(m)
    \/ \E cid \in 1..MaxTurns, m \in Messages, store_ok \in BOOLEAN :
          HandleFeedback(cid, m, store_ok)
    \/ \E store_ok \in BOOLEAN, ctx_failure \in ContextSites \cup {"None"} :
          RunStart(store_ok, ctx_failure)
    \/ \E model_ok \in BOOLEAN, text \in Responses, log_ok \in BOOLEAN, store_ok \in BOOLEAN :
          IterFinalAnswer(model_ok, text, log_ok, store_ok)
    \/ \E model_ok \in BOOLEAN, text \in Responses, log_ok \in BOOLEAN, store_ok \in BOOLEAN :
          IterDraft(model_ok, text, log_ok, store_ok)
    \/ \E model_ok \in BOOLEAN, text \in Responses, log_ok \in BOOLEAN, handler_ok \in BOOLEAN,
          store_failure \in 0..2, update_ok \in BOOLEAN :
          IterAction(model_ok, text, log_ok, handler_ok, store_failure, update_ok)
    \/ \E model_ok \in BOOLEAN, text \in Responses, log_ok \in BOOLEAN :
          IterThought(model_ok, text, log_ok)
    \/ \E store_ok \in BOOLEAN, memory_ok \in BOOLEAN : RunFinish(store_ok, memory_ok)

SpecFeedback == InitFeedback /\ [][NextFeedback]_vars

(***************************************************************************)
(* The program as the repository wires it (main.py:24-44): the             *)
(* ConversationManager and direct calls of Agent.run, on the repository's  *)
(* ToolRegistry and LLMLogStore.                                           *)
(***************************************************************************)
NextRepository ==
    \/ \E u \in Users, m \in Messages : ManagerReset(u, m)
    \/ \E u \in Users, m \in Messages, store_ok \in BOOLEAN : ManagerApproval(u, m, store_ok)
    \/ \E u \in Users, m \in Messages : ManagerRun(u, m)
    \/ NextRun

SpecRepository == InitFeedback /\ [][NextRepository]_vars

(***************************************************************************)
(* The start of a turn in a conversation that earlier turns have filled:   *)
(* the interactions table holds the rows of completed turns, a script      *)
(* gives feedback on one of the conversations and Agent.run starts.        *)
(***************************************************************************)
\* The rows a completed turn left: the user's message and the final answer
\* (agent.py:391, 444), with an action and its observation between them
\* when a tool was used (agent.py:472, 478). Each content names the row's
\* position in the table.
PersistedRows(rows, cid, with_tool) ==
    LET Row(n, role, type, tool) ==
            [conversation_id |-> cid, role |-> role, content |-> <<"row", ToString(n)>>,
             metadata |-> Metadata(type, FALSE, tool)]
        n0 == Len(rows)
    IN IF with_tool
       THEN rows \o <<Row(n0 + 1, "user", "None", NoName),
                      Row(n0 + 2, "agent", "action", "search_emails"),
                      Row(n0 + 3, "tool", "None", "search_emails"),
                      Row(n0 + 4, "agent", "final_answer", NoName)>>
       ELSE rows \o <<Row(n0 + 1, "user", "None", NoName),
                      Row(n0 + 2, "agent", "final_answer", NoName)>>

\* An earlier turn of conversation cid, completed before the turns of this
\* behaviour; the second conversation holds one turn at most.
PersistedTurn(cid, with_tool) ==
    /\ pc = "idle"
    /\ turns = 0
    /\ cid \in 1..next_conversation_id
    /\ cid <= 2
    /\ cid = 2 => (~with_tool /\ next_conversation_id = 2)
    /\ Len(PersistedRows(interactions, cid, with_tool)) <= MaxRows
    /\ interactions' = PersistedRows(interactions, cid, with_tool)
    /\ next_conversation_id' = IF cid = next_conversation_id THEN cid + 1
                               ELSE next_conversation_id
    /\ UNCHANGED <<wiring_vars, channel, threads, set_focus_calls, lost_conversations, fault_vars,
                   llm_logs, focus, manager_vars, pc, caller, user_id, task,
                   mgr_conversation_id, conversation_id, loop_vars, current_focus, result,
                   raised_by, count_vars, turn_base, turns, total_calls, faults>>

InitHistory == Init /\ ~registry_has_set_user /\ ~log_store_accepts

NextHistory ==
    \/ \E cid \in 1..2, with_tool \in BOOLEAN : PersistedTurn(cid, with_tool)
    \/ \E cid \in 1..2, m \in DirectTasks, store_ok \in BOOLEAN :
          HandleFeedback(cid, m, store_ok)
    \/ \E store_ok \in BOOLEAN, ctx_failure \in ContextSites \cup {"None"} :
          RunStart(store_ok, ctx_failure)

SpecHistory == InitHistory /\ [][NextHistory]_vars

(***************************************************************************)
(* Agent._parse_response on its own (agent.py:263-326), applied to any     *)
(* text of a few lexemes.                                                  *)
(***************************************************************************)
ParserTokens == Markers \cup {" ", "NL", "t", ".", "{q}", "[]", "{bad"}

ParserInputs == UNION {[1..n -> ParserTokens] : n \in 0..MaxLen}

InitParse == InitOn(ParserInputs) /\ ~registry_has_set_user /\ ~log_store_accepts

\* response = self._parse_response(response_text)
CallParseResponse ==
    /\ pc = "idle"
    /\ response' = ParseResponse(response_text)
    /\ pc' = "parsed"
    /\ UNCHANGED <<wiring_vars, channel, threads, set_focus_calls, lost_conversations, fault_vars,
                   store_vars, manager_vars, caller, user_id, task, mgr_conversation_id,
                   conversation_id, history, current_prompt, i, final_response,
                   extracted_focus, current_focus, collected_tool_observations,
                   response_text, observation, tool_error, log_entry, sent, result,
                   raised_by, count_vars, turn_base, turns, total_calls, faults>>

NextParse == CallParseResponse

SpecParse == InitParse /\ [][NextParse]_vars

(***************************************************************************)
(* FocusStore on its own (focus_store.py): any caller sets any user's      *)
(* focus line.                                                             *)
(***************************************************************************)
FocusLines == {<<"f1">>, <<"f2">>}

InitFocus == Init /\ ~registry_has_set_user /\ ~log_store_accepts

\* focus_store.set_focus(u, f)
FocusSet(u, f) ==
    /\ Len(set_focus_calls) < MaxFocusCalls
    /\ focus' = SetFocus(focus, u, f)
    /\ set_focus_calls' = Append(set_focus_calls, <<u, f>>)
    /\ UNCHANGED <<wiring_vars, channel, threads, lost_conversations, fault_vars, interactions, llm_logs,
                   next_conversation_id, manager_vars, pc, caller, user_id, task, mgr_conversation_id,
                   conversation_id, loop_vars, current_focus, result, raised_by, count_vars,
                   turn_base, turns, total_calls, faults>>

NextFocus == \E u \in Users, f \in FocusLines : FocusSet(u, f)

SpecFocus == InitFocus /\ [][NextFocus]_vars

(***************************************************************************)
(* First turns of several users that overlap: handle_message awaits        *)
(* Agent.run in an executor thread (discord_bot.py:164-170), so the event  *)
(* loop serves another user while a run is in progress, and the runs of    *)
(* two users write to the stores in any order. The model answers each turn *)
(* at its first call with a final answer or a draft; no collaborator       *)
(* fails.                                                                  *)
(***************************************************************************)
InitOverlap == Init /\ registry_has_set_user /\ ~log_store_accepts

\* what every step of these turns leaves alone
overlap_frame == <<wiring_vars, channel,
                   lost_conversations, fault_vars, llm_logs, pc, caller, user_id,
                   task, mgr_conversation_id, conversation_id, loop_vars, current_focus,
                   result, raised_by, count_vars, turn_base, turns, total_calls, faults>>

\* discord_bot.py:149-170: a user without a conversation sends a message
\* that is no reset command; the run is handed to the executor
OverlapReceive(u, message) ==
    /\ threads[u].pc = "idle"
    /\ user_conversations[u] = 0
    /\ Normalized(message) \notin ResetVocabulary
    /\ threads' = [threads EXCEPT ![u] = [@ EXCEPT !.pc = "executor", !.task = message]]
    /\ UNCHANGED <<overlap_frame, store_vars, set_focus_calls, manager_vars>>

\* agent.py:368-391 in the executor thread: a new conversation id, the
\* user's message persisted
OverlapRunStart(u) ==
    /\ threads[u].pc = "executor"
    /\ threads' = [threads EXCEPT ![u] = [@ EXCEPT !.pc = "loop",
                                                   !.conversation_id = next_conversation_id]]
    /\ next_conversation_id' = next_conversation_id + 1
    /\ interactions' = AddMessage(interactions, next_conversation_id, "user", threads[u].task,
                                  Metadata("None", FALSE, NoName))
    /\ UNCHANGED <<overlap_frame, focus, set_focus_calls, manager_vars>>

\* agent.py:422-544 in the executor thread, for a first response that is a
\* final answer or a draft
OverlapAnswer(u, text) ==
    LET r == Parsed(text)
        draft == r.type = "draft_for_approval"
    IN /\ threads[u].pc = "loop"
       /\ r.type \in {"final_answer", "draft_for_approval"}
       /\ interactions' = AddMessage(interactions, threads[u].conversation_id, "agent",
                                     r.content, IF draft THEN DraftMetadata ELSE FinalMetadata)
       /\ threads' = [threads EXCEPT ![u] =
                         [@ EXCEPT !.pc = "ran",
                                   !.final_response = IF draft THEN WrapDraft(r.content)
                                                      ELSE r.content]]
       /\ IF r.focus # None
          THEN /\ focus' = SetFocus(focus, u, r.focus)
               /\ set_focus_calls' = Append(set_focus_calls, <<u, r.focus>>)
          ELSE UNCHANGED <<focus, set_focus_calls>>
       /\ UNCHANGED <<overlap_frame, next_conversation_id, manager_vars>>

\* discord_bot.py:172-187 back on the event loop
OverlapTrack(u) ==
    /\ threads[u].pc = "ran"
    /\ pending_drafts' =
          IF Contains(threads[u].final_response, DraftHeader)
          THEN [pending_drafts EXCEPT ![u] = DraftContentOf(threads[u].final_response)]
          ELSE pending_drafts
    /\ user_conversations' = TrackConversation(user_conversations, u, 0, interactions)
    /\ threads' = [threads EXCEPT ![u] = [@ EXCEPT !.pc = "done"]]
    /\ UNCHANGED <<overlap_frame, store_vars, set_focus_calls>>

NextOverlap ==
    \/ \E u \in Users, m \in Messages : OverlapReceive(u, m)
    \/ \E u \in Users : OverlapRunStart(u)
    \/ \E u \in Users, text \in Responses : OverlapAnswer(u, text)
    \/ \E u \in Users : OverlapTrack(u)

SpecOverlap == InitOverlap /\ [][NextOverlap]_vars

(***************************************************************************)
(* DiscordBot._send_response applied to response texts of up to MaxLines   *)
(* lines whose lengths lie around the limit.                               *)
(***************************************************************************)
LineLengths == {0, 1, 1000, 1999, 2000, 2001}
ResponseLines == UNION {[1..n -> LineLengths] : n \in 1..MaxLines}

SendResponse(response_lines) ==
    /\ pc = "idle"
    /\ channel.sent = <<>>
    /\ channel' = [response |-> response_lines, sent |-> SentMessages(response_lines)]
    /\ UNCHANGED <<wiring_vars, threads, set_focus_calls, lost_conversations, fault_vars,
                   store_vars, manager_vars, pc, caller, user_id, task, mgr_conversation_id,
                   conversation_id, loop_vars, current_focus, result, raised_by, count_vars,
                   turn_base, turns, total_calls, faults>>

NextSend == \E response_lines \in ResponseLines : SendResponse(response_lines)

SpecSend == InitFeedback /\ [][NextSend]_vars

(***************************************************************************)
(* Properties of Agent.run and ConversationManager.handle_message.         *)
(***************************************************************************)
\* Agent.run has returned to its caller in this turn.
RunReturned == pc \in {"run_returned", "returned"} /\ llm_calls > 0

\* The rows this turn appended to the interactions store.
TurnRows == SubSeq(interactions, turn_base + 1, Len(interactions))

AgentRowsOfType(rows, type) ==
    {k \in 1..Len(rows) : rows[k].role = "agent" /\ rows[k].metadata.type = type}

EndsWith(s, t) == Len(t) <= Len(s) /\ SubSeq(s, Len(s) - Len(t) + 1, Len(s)) = t

\* Every response of this turn was a thought and the model never failed.
AllThoughts ==
    /\ llm_calls > 0
    /\ model_errors = 0
    /\ action_responses = 0
    /\ response.type = "thought"

\* C1: one call of Agent.run makes at most max_iterations model calls: the
\* loop is entered only while the iteration counter, which counts the model
\* calls made, is below max_iterations; a run whose responses are all bare
\* thoughts returns after exactly max_iterations calls with the fixed
\* apology; and no model response or tool outcome makes the run raise.
C1_LoopBound ==
    /\ llm_calls <= MaxIterations
    /\ pc = "loop" => (i = llm_calls /\ i < MaxIterations)
    /\ pc = "after_loop" => (final_response # None \/ llm_calls = MaxIterations)
    /\ (RunReturned /\ AllThoughts) =>
          (llm_calls = MaxIterations /\ final_response = ApologyFallback)
    /\ (pc = "raised" /\ llm_calls > 0) => raised_by = "add_message"

C1_Witness ==
    /\ RunReturned
    /\ AllThoughts
    /\ llm_calls = MaxIterations
    /\ final_response = ApologyFallback

\* C2: when the model backend call fails during a turn, the failure is
\* re-raised to the caller of Agent.run (the turn ends raised by the model
\* backend).
C2_ModelFailureReraised ==
    model_errors > 0 => (pc = "raised" /\ raised_by = "model_backend")

\* The last iteration was an action whose tool dispatch raised.
ToolFailedNow == llm_calls > 0 /\ response.type = "action" /\ tool_error # None

\* C3: a tool dispatch that raises (the handler raises, or the tool is not
\* registered) never makes Agent.run raise; unless the interactions store
\* fails in that iteration, the observation starts with OBSERVATION: and ends
\* with the error text, the in-loop history ends with the model's action
\* text and that observation, and the loop goes on to the next iteration
\* with the continuation prompt.
C3_ToolFailureContained ==
    /\ raised_by # "tool_execute"
    /\ (ToolFailedNow /\ pc # "raised") =>
          /\ Head(observation) = "OBSERVATION: "
          /\ EndsWith(observation, tool_error)
          /\ Len(history) >= 2
          /\ history[Len(history) - 1] = [role |-> "assistant", content |-> response_text]
          /\ history[Len(history)] = [role |-> "user", content |-> observation]
          /\ current_prompt = ContinuationPrompt
          /\ i = llm_calls
          /\ (pc = "loop" <=> (final_response = None /\ llm_calls < MaxIterations /\ ~RunReturned))

C3_Witness ==
    /\ ToolFailedNow
    /\ tool_error = UnknownToolText(response.action_name)
    /\ pc = "loop"
    /\ handler_calls = 0

\* C4: in every turn the number of tool execution attempts equals the number
\* of responses classified as action, so it never exceeds the number of
\* model calls, and the handlers that ran are at most the attempts: a failed
\* tool call is not attempted again.
C4_OneAttemptPerAction ==
    /\ tool_attempts = action_responses
    /\ action_responses <= llm_calls
    /\ handler_calls <= tool_attempts

C4_Witness ==
    /\ tool_attempts = 2
    /\ llm_calls = 2
    /\ handler_calls = 1
    /\ tool_error # None

\* The content of a terminal response: the text after the marker, trimmed.
ContentAfter(text, marker) == Strip(AfterFirst(Strip(text), marker))

\* C5: once a response is classified final_answer, the turn makes no further
\* model call and no tool execution, and when Agent.run returns it returns
\* the text after the marker, trimmed, which is persisted as the turn's one
\* agent row of type final_answer.
C5_FinalAnswerReturned ==
    [][ /\ (response.type = "final_answer" /\ turns' = turns) =>
              (llm_calls' = llm_calls /\ tool_attempts' = tool_attempts)
        /\ (RunReturned /\ response.type = "final_answer")' =>
              ( /\ final_response = ContentAfter(response_text, "FINAL_ANSWER:")
                /\ \E k \in 1..Len(TurnRows) :
                      /\ AgentRowsOfType(TurnRows, "final_answer") = {k}
                      /\ k = Len(TurnRows)
                      /\ TurnRows[k].content = final_response )'
      ]_vars

C5_Witness ==
    /\ RunReturned
    /\ response.type = "final_answer"
    /\ final_response = <<"done">>
    /\ llm_calls = 2

\* The messages of the last model call that this turn put in the in-loop
\* history, followed by the prompt: the list without the loaded history.
LoadedLen ==
    Len(LoadHistory(GetConversation(SubSeq(interactions, 1, turn_base), conversation_id)))

SentInTurn == SubSeq(sent.messages, LoadedLen + 1, Len(sent.messages))

OriginalMessage == [role |-> "user", content |-> task]

Exhausted == RunReturned /\ response.type \in {"action", "thought"}

\* C7: a turn that ends by exhaustion returns the fixed fallback message and
\* persists exactly one agent row of type max_iterations_reached, the last
\* row of the turn, with that message, and no row of type final_answer or
\* draft.
C7_ExhaustionPersisted ==
    Exhausted =>
        /\ final_response = ApologyFallback
        /\ \E k \in 1..Len(TurnRows) :
              /\ AgentRowsOfType(TurnRows, "max_iterations_reached") = {k}
              /\ k = Len(TurnRows)
              /\ TurnRows[k].content = ApologyFallback
        /\ AgentRowsOfType(TurnRows, "final_answer") = {}
        /\ AgentRowsOfType(TurnRows, "draft") = {}

C7_Witness ==
    /\ Exhausted
    /\ action_responses = MaxIterations
    /\ Len(TurnRows) = 2 + 2 * MaxIterations

C9_StoreFailureContained == raised_by # "add_message"

\* The audit log failed in the last iteration: log_request stored no entry,
\* or the entry was not updated with the iteration's tool observation.
LogFailedNow ==
    /\ llm_calls > 0
    /\ \/ log_entry = 0
       \/ /\ response.type = "action"
          /\ pc \in {"loop", "after_loop"}
          /\ llm_logs[log_entry].tool_observations # collected_tool_observations

\* What the loop does with a parsed response, as seen right after the
\* iteration (agent.py:442-517).
DispatchedAsParsed ==
    /\ response = ParseResponse(response_text)
    /\ response.type = "final_answer" =>
          (pc = "after_loop" /\ final_response = response.content)
    /\ response.type = "draft_for_approval" =>
          (pc = "after_loop" /\ final_response = WrapDraft(response.content))
    /\ response.type = "action" =>
          /\ observation = Observation(response.action_name, tool_error)
          /\ history[Len(history)] = [role |-> "user", content |-> observation]
          /\ current_prompt = ContinuationPrompt
          /\ final_response = None
          /\ pc = "loop" <=> llm_calls < MaxIterations
    /\ response.type = "thought" =>
          /\ history[Len(history)] = [role |-> "assistant", content |-> response_text]
          /\ current_prompt = CorrectivePrompt
          /\ final_response = None
          /\ pc = "loop" <=> llm_calls < MaxIterations

\* C10: a failure of log_request or of the tool-observation update never
\* makes Agent.run raise, and the response of an iteration whose logging
\* failed is parsed and dispatched by its type like any other.
C10_LogFailureContained ==
    /\ raised_by \notin {"log_request", "update_tool_observations"}
    /\ (LogFailedNow /\ pc \in {"loop", "after_loop"}) => DispatchedAsParsed

C10_Witness ==
    /\ log_store_accepts
    /\ LogFailedNow
    /\ log_entry # 0
    /\ pc = "loop"

(***************************************************************************)
(* C11: one log entry per model call.                                      *)
(***************************************************************************)
\* the entries the log store holds for the conversation of the run in
\* progress (a direct run has a conversation of its own, agent.py:369-370)
LogEntriesOfRun == SelectSeq(llm_logs, LAMBDA e : e.conversation_id = conversation_id)

\* the log store's insert never failed during this run: in the repository's
\* wiring no insert is ever attempted, so none can fail
LogStoreWorking == log_store_accepts => log_failures = 0

\* C11: with a working log store, a run that made k model calls (successful
\* or failed) has left exactly k log entries for its conversation, carrying
\* the iterations 0..k-1 in order.
C11_EveryCallLogged ==
    (LogStoreWorking /\ llm_calls > 0) =>
        /\ Len(LogEntriesOfRun) = llm_calls
        /\ \A k \in 1..Len(LogEntriesOfRun) : LogEntriesOfRun[k].iteration = k - 1
(***************************************************************************)
(* C12: failures of the embedding provider, the memory store and the       *)
(* focus store.                                                            *)
(***************************************************************************)
\* a call of _get_memory_context raised at the start of this turn
ContextFailedNow == context_failure # "None"

C13_PartialContextKept ==
    (pc = "loop" /\ user_id # NoUser /\ context_failure = "get_embedding"
       /\ GetFocus(focus, user_id) # None)
        => current_focus = GetFocus(focus, user_id)
(***************************************************************************)
(* C15: the focus store as a register per user.                            *)
(***************************************************************************)
\* the focus of the most recent set_focus call for u, None when there was none
LastSetFocus(calls, u) ==
    LET mine == {k \in DOMAIN calls : calls[k][1] = u}
    IN IF mine = {} THEN None
       ELSE calls[CHOOSE k \in mine : \A m \in mine : m <= k][2]

RowsOf(table, u) == {k \in DOMAIN table : table[k].user_id = u}

\* C15: after any sequence of set_focus calls, get_focus(u) is the value of
\* the most recent set_focus for u (nothing when there was none), the table
\* holds at most one row per user, and a set_focus for u leaves what
\* get_focus returns for every other user as it was.
C15_FocusRegister ==
    [][/\ \A u \in Users : GetFocus(focus', u) = LastSetFocus(set_focus_calls', u)
       /\ \A u \in Users : Cardinality(RowsOf(focus', u)) <= 1
       /\ \A u, v \in Users :
             (set_focus_calls' = Append(set_focus_calls, <<u, GetFocus(focus', u)>>) /\ v # u)
                 => GetFocus(focus', v) = GetFocus(focus, v)]_vars

\* u1's focus was set, u2's was set, and u1's was then overwritten
C15_Witness ==
    /\ Len(set_focus_calls) = 3
    /\ set_focus_calls[1] = <<"u1", <<"f1">> >>
    /\ set_focus_calls[2] = <<"u2", <<"f1">> >>
    /\ set_focus_calls[3] = <<"u1", <<"f2">> >>
    /\ GetFocus(focus, "u1") = <<"f2">>
    /\ GetFocus(focus, "u2") = <<"f1">>
(***************************************************************************)
(* C14: the focus stored at the end of a turn.                             *)
(***************************************************************************)
\* the step with which Agent.run returns for a user
RunReturnsForUser ==
    pc = "after_loop" /\ pc' \in {"run_returned", "returned"} /\ user_id # NoUser

\* the responses of the model in this turn, in order: those the loop put
\* into its history and the one it handled last
TurnTexts ==
    LET added == SubSeq(history, LoadedLen + 1, Len(history))
        answers == SelectSeq(added, LAMBDA msg : msg.role = "assistant")
    IN [k \in DOMAIN answers |-> answers[k].content] \o <<response_text>>

\* the non-empty FOCUS lines among them
EmittedFocuses ==
    LET lines == [k \in DOMAIN TurnTexts |-> Parsed(TurnTexts[k]).focus]
    IN SelectSeq(lines, LAMBDA line : line # None)

LastEmittedFocus ==
    IF EmittedFocuses = <<>> THEN None ELSE EmittedFocuses[Len(EmittedFocuses)]

C16_ConversationSurvivesRestart ==
    (caller = "manager" /\ pc = "loop" /\ llm_calls = 0
       /\ lost_conversations[user_id] # 0)
        => /\ conversation_id = lost_conversations[user_id]
           /\ history = LoadHistory(GetConversation(SubSeq(interactions, 1, turn_base),
                                                    lost_conversations[user_id]))
(***************************************************************************)
(* C17: overlapping first turns of two users.                              *)
(***************************************************************************)
\* C17: whenever handle_message has finished a user's first turn, the user is
\* tracked to the conversation id that turn created.
C17_TrackedToOwnConversation ==
    \A u \in Users :
        threads[u].pc = "done" => user_conversations[u] = threads[u].conversation_id
(***************************************************************************)
(* C18: the persisted turns of a conversation only grow at the end.        *)
(***************************************************************************)
\* the conversation's turns as persisted, oldest first, without metadata
TurnsOf(rows, cid) ==
    LET mine == SelectSeq(rows, LAMBDA row : row.conversation_id = cid)
    IN [k \in DOMAIN mine |-> [role |-> mine[k].role, content |-> mine[k].content]]

IsPrefix(s, t) == Len(s) <= Len(t) /\ SubSeq(t, 1, Len(s)) = s

\* C18: with every step of Agent.run and Agent.handle_feedback, the turns
\* each conversation had before the step are, in the same order and with the
\* same roles and contents, the first turns it has after the step.
C18_TurnsAppendOnly ==
    [][\A cid \in 1..next_conversation_id :
           IsPrefix(TurnsOf(interactions, cid), TurnsOf(interactions', cid))]_vars

\* a conversation that a run started and a feedback run continued
C18_Witness ==
    /\ pc = "returned"
    /\ turns = 2
    /\ turn_base >= 2
    /\ Len(interactions) >= turn_base + 3
    /\ \A k \in DOMAIN interactions : interactions[k].conversation_id = 1
    /\ interactions[turn_base + 1].metadata.type = "feedback"
(***************************************************************************)
(* C19: the history a turn starts with.                                    *)
(***************************************************************************)
\* the role under which a persisted turn is replayed
ReplayedRole(role) ==
    CASE role = "agent" -> "assistant"
      [] role = "tool" -> "user"
      [] OTHER -> role

StrippedAfter(text, k) == Strip(SubSeq(text, k + 1, Len(text)))

\* C20 as stated: for every text that contains FINAL_ANSWER:, the parser
\* returns a final_answer whose content is what follows a FINAL_ANSWER:
\* marker of the text (nothing that precedes the marker, THOUGHT: and FOCUS:
\* text included) and holds no FINAL_ANSWER: marker itself.
C20_ContentExcludesMarker ==
    (pc = "parsed" /\ Contains(response_text, "FINAL_ANSWER:")) =>
        /\ response.type = "final_answer"
        /\ \E k \in DOMAIN response_text :
              /\ response_text[k] = "FINAL_ANSWER:"
              /\ response.content = StrippedAfter(response_text, k)
        /\ ~Contains(response.content, "FINAL_ANSWER:")

\* C20, amended: for every text that contains FINAL_ANSWER:, the parser
\* returns a final_answer whose content is the stripped text after the first
\* FINAL_ANSWER: marker: nothing that precedes that marker is in it, and
\* whatever follows it is, a later FINAL_ANSWER: marker included.
C20_ContentAfterFirstMarker ==
    (pc = "parsed" /\ Contains(response_text, "FINAL_ANSWER:")) =>
        /\ response.type = "final_answer"
        /\ \E k \in DOMAIN response_text :
              /\ response_text[k] = "FINAL_ANSWER:"
              /\ \A j \in 1..(k - 1) : response_text[j] # "FINAL_ANSWER:"
              /\ response.content = StrippedAfter(response_text, k)

\* a thought, then two final-answer markers
C20_Witness ==
    /\ pc = "parsed"
    /\ response_text = <<"THOUGHT:", "FINAL_ANSWER:", "FINAL_ANSWER:", "t">>
    /\ response.type = "final_answer"
    /\ response.content = <<"FINAL_ANSWER:", "t">>
(***************************************************************************)
(* C21: the parser classifies by marker priority.  A text containing       *)
(* FINAL_ANSWER: is parsed as final_answer; a text containing              *)
(* DRAFT_FOR_APPROVAL: and no FINAL_ANSWER: is parsed as                   *)
(* draft_for_approval; whatever other markers the text contains.  Neither  *)
(* result names a tool, and the loop executes a tool only for a result of  *)
(* type action, so ACTION: next to one of these markers runs no tool.      *)
(***************************************************************************)
C21_MarkerPriority ==
    pc = "parsed" =>
        /\ Contains(response_text, "FINAL_ANSWER:") =>
               /\ response.type = "final_answer"
               /\ response.action_name = NoName
               /\ response.action_input = NoInput
        /\ (Contains(response_text, "DRAFT_FOR_APPROVAL:")
             /\ ~Contains(response_text, "FINAL_ANSWER:")) =>
               /\ response.type = "draft_for_approval"
               /\ response.action_name = NoName
               /\ response.action_input = NoInput

C21_Witness ==
    /\ pc = "parsed"
    /\ response_text = <<"ACTION:", "t", "DRAFT_FOR_APPROVAL:", "t">>
    /\ response.type = "draft_for_approval"
    /\ response.content = <<"t">>

(***************************************************************************)
(* C22: a text that is classified by its ACTION: marker (no FINAL_ANSWER:  *)
(* or DRAFT_FOR_APPROVAL: in it, a name after ACTION:) and whose           *)
(* ACTION_INPUT: body does not decode as JSON is parsed, without an error, *)
(* as an action whose input is the single field raw_input holding the      *)
(* stripped body text.                                                     *)
(***************************************************************************)
InputBody(text) == SearchGroup(Strip(text), "ACTION_INPUT:", {"THOUGHT:", "ACTION:", "FOCUS:"})

ActionText(text) ==
    /\ ~Contains(text, "FINAL_ANSWER:")
    /\ ~Contains(text, "DRAFT_FOR_APPROVAL:")
    /\ ActionNameMatch(Strip(text)) # NoName

C23_InputIsMapping ==
    (pc = "parsed" /\ response.type = "action") =>
        /\ response.action_input.kind = "dict"
        /\ InputBody(response_text) = NoMatch => response.action_input = EmptyInput

(***************************************************************************)
(* C25: when the text contains a FOCUS: marker, the result carries the     *)
(* focus text of the marker's line (what follows the first FOCUS: up to    *)
(* the end of the line or the next classification marker, trimmed, with    *)
(* trailing periods removed; no focus when that text is empty), whatever   *)
(* the classification; when the text contains no FOCUS: marker, the        *)
(* result carries no focus.                                                *)
(***************************************************************************)
FocusLine(text) ==
    RStripDots(Strip(TakeUntil(AfterFirst(Strip(text), "FOCUS:"), FocusStops)))

C25_FocusOfMarkerLine ==
    pc = "parsed" =>
        IF Contains(response_text, "FOCUS:") /\ FocusLine(response_text) # <<>>
        THEN response.focus = FocusLine(response_text)
        ELSE response.focus = None

(***************************************************************************)
(* C24: a text that contains none of the markers, the empty text           *)
(* included, is parsed as a thought whose content is the whole trimmed     *)
(* text; the loop then appends the text to the in-loop history as an       *)
(* assistant message and goes on with the fixed corrective prompt (to the  *)
(* next iteration while the iteration bound allows one).                   *)
(***************************************************************************)
NoMarkers(text) == \A k \in 1..Len(text) : text[k] \notin Markers

C24_PlainTextIsThought ==
    (pc \in {"loop", "after_loop"} /\ i > 0 /\ NoMarkers(response_text)) =>
        /\ response.type = "thought"
        /\ response.content = Strip(response_text)
        /\ response.action_name = NoName
        /\ Len(history) > 0
        /\ history[Len(history)] = [role |-> "assistant", content |-> response_text]
        /\ current_prompt = CorrectivePrompt
        /\ pc = (IF i < MaxIterations THEN "loop" ELSE "after_loop")
        /\ final_response = None

C24_Witness ==
    /\ pc = "loop"
    /\ i = 1
    /\ response_text = <<" ", "hi", "NL">>
    /\ response.type = "thought"
    /\ response.content = <<"hi">>
    /\ current_prompt = CorrectivePrompt

(***************************************************************************)
(* C26: ToolRegistry.execute on a name that was never registered fails     *)
(* with the unknown-tool error and runs no handler; on a registered name   *)
(* (with keywords the handler binds) it runs the handler exactly once per  *)
(* call and returns its result or propagates its error unchanged, so two   *)
(* executions of the same tool run the handler twice.  Stated for every    *)
(* iteration that dispatches an action with a mapping input.               *)
(***************************************************************************)
C26_ExecuteOncePerCall ==
    [][(/\ pc = "loop"
        /\ response'.type = "action"
        /\ response'.action_input.kind = "dict") =>
           IF response'.action_name \notin RegisteredTools
           THEN /\ handler_calls' = handler_calls
                /\ tool_error' = UnknownToolText(response'.action_name)
           ELSE HandlerAccepts(response'.action_name, response'.action_input.dict) =>
                /\ handler_calls' = handler_calls + 1
                /\ tool_error' \in {None, ToolErrorText}
                /\ tool_error' = None => observation' = <<"OBSERVATION: ">> \o ToolResult]_vars

C26_Witness ==
    /\ handler_calls = 2
    /\ tool_attempts = 2
    /\ i = 2
    /\ response.action_name = "search_emails"
    /\ tool_error = None

(***************************************************************************)
(* C27: a turn started with a user id on an Agent that uses the            *)
(* repository's ToolRegistry does not fail at a registry operation that    *)
(* Agent.run invokes before the loop: it never raises at                   *)
(* set_current_user_id, before any model call or persistence.              *)
(***************************************************************************)
C27_UserIdReachesModelCall ==
    (user_id # NoUser /\ ~registry_has_set_user /\ pc = "raised") =>
        raised_by # "set_current_user_id"

(***************************************************************************)
(* C29: a message in the approval vocabulary that a user sends through     *)
(* ConversationManager takes the approval short-circuit (no agent loop)    *)
(* only when that user has a draft awaiting approval; sent when no draft   *)
(* is pending, it is processed by the full agent loop.                     *)
(***************************************************************************)
C29_ApprovalNeedsPendingDraft ==
    [][(/\ turns' = turns + 1
        /\ caller' = "manager"
        /\ Normalized(task') \in ApprovalVocabulary) =>
           IF pending_drafts[user_id'] # None
           THEN pc' \in {"returned", "raised"} /\ llm_calls' = 0
           ELSE pc' = "run"]_vars

(***************************************************************************)
(* C28: when Agent.run has returned (every persistence call of the turn    *)
(* succeeded, a failing one makes the run raise), the rows the turn        *)
(* appended to the conversation are, in order: one user row with the task; *)
(* for each action iteration an agent row of type action immediately       *)
(* followed by a tool row with the same tool name; and last exactly one    *)
(* terminal agent row (final_answer, draft or max_iterations_reached).     *)
(* Thought-only iterations append no row.                                  *)
(***************************************************************************)
TerminalTypes == {"final_answer", "draft", "max_iterations_reached"}

RECURSIVE JoinedLines(_)
JoinedLines(messages) ==
    IF messages = <<>> THEN <<>> ELSE Head(messages) \o JoinedLines(Tail(messages))

C30_ChunksWithinLimitAndComplete ==
    (channel.sent # <<>> \/ channel.response # <<0>>) =>
        /\ \A k \in 1..Len(channel.sent) : StrLen(channel.sent[k]) <= MaxLength
        /\ JoinedLines(channel.sent) = channel.response

====
